---- MODULE Spec2Model ----
(***************************************************************************)
(* Model of selfdrive/controls/lib/radar_helpers.py: radar Track objects   *)
(* (a KF1D lead filter per detection), the Cluster that fuses them, and    *)
(* the module-level vision lead state.                                     *)
(*                                                                         *)
(* Numbers are exact rationals <<n, d>> (d > 0, lowest terms), so that the *)
(* means, the 0.9 decay and the 4:1 averaging are computed without         *)
(* rounding.                                                               *)
(***************************************************************************)
EXTENDS Integers, Sequences, FiniteSets, TLC

VARIABLES track, tracks, vision_lead_aTau, avg_vision_dRel, avg_vision_vLead,
          avg_vision_aLead, ret, last, was_reset, streak, ncalls

vars == <<track, tracks, vision_lead_aTau, avg_vision_dRel, avg_vision_vLead,
          avg_vision_aLead, ret, last, was_reset, streak, ncalls>>

(* ------------------------------ bounds --------------------------------- *)

\* total number of Track.update calls explored, over all tracks
MaxUpdates == 4

\* number of get_RadarState_from_vision calls explored
MaxVisionCalls == 3

\* total number of update and vision calls explored when both are interleaved
MaxCalls == 3

\* the Track objects: two radar points that may fall into one cluster
TrackIds == {1, 2}

(* --------------------------- rational numbers -------------------------- *)

RECURSIVE GCD(_, _)
GCD(a, b) == IF b = 0 THEN a ELSE GCD(b, a % b)

IAbs(n) == IF n < 0 THEN -n ELSE n

\* the rational n/d in lowest terms with a positive denominator
R(n, d) ==
  LET s == IF d < 0 THEN -1 ELSE 1
      g == GCD(IAbs(n), IAbs(d))
  IN  <<(s * n) \div g, (s * d) \div g>>

Num(q) == q[1]
Den(q) == q[2]
I(n) == <<n, 1>>

RAdd(p, q) == R(Num(p) * Den(q) + Num(q) * Den(p), Den(p) * Den(q))
RSub(p, q) == R(Num(p) * Den(q) - Num(q) * Den(p), Den(p) * Den(q))
RMul(p, q) == R(Num(p) * Num(q), Den(p) * Den(q))
RDivInt(p, k) == R(Num(p), Den(p) * k)
RNeg(p) == <<-Num(p), Den(p)>>
RAbs(p) == <<IAbs(Num(p)), Den(p)>>
RLt(p, q) == Num(p) * Den(q) < Num(q) * Den(p)
RGt(p, q) == RLt(q, p)
RLe(p, q) == ~RLt(q, p)

(* ------------------------------ constants ------------------------------ *)

LEAD_ACCEL_TAU == R(3, 2)

SPEED == 0
ACCEL == 1

v_ego_stationary == I(4)

RADAR_TO_CAMERA == R(152, 100)

\* ret before any call
NoCall == [op |-> "none"]

(* ------------------------------- inputs -------------------------------- *)

\* initial lead velocities a Track is constructed with
V0Vals == {I(1)}

\* radar points fed to Track.update: d_rel, y_rel, v_rel, v_lead, measured
Detections ==
  { [d_rel |-> I(25), y_rel |-> R(1, 2),  v_rel |-> I(-1), v_lead |-> I(1), measured |-> TRUE],
    [d_rel |-> I(10), y_rel |-> R(-3, 2), v_rel |-> I(1),  v_lead |-> I(2), measured |-> FALSE] }

\* arguments of Track.reset_a_lead: aLeadK, aLeadTau (a positive time constant)
ResetArgs == { <<I(-1), I(2)>> }

\* model probabilities
Probs == { R(9, 10), R(9001, 10000) }

\* ego speeds
VEgos == { I(2), I(4) }

\* vision lead messages (element 0 of x, y, v, a, and prob)
LeadMsgs ==
  { [x |-> I(20), y |-> R(1, 2), v |-> I(5),  a |-> I(2),  prob |-> R(1, 2)],
    [x |-> I(40), y |-> I(-1),   v |-> I(10), a |-> I(-5), prob |-> R(95, 100)] }

\* (v_ego, vision_v_ego) pairs given to get_RadarState_from_vision
VisionEgos == { <<I(5), I(6)>> }

LeadIndices == {0, 1}

(* -------------------------------- KF1D --------------------------------- *)

\* kalman_params handed to Track.__init__: A = [[1, dt], [0, 1]], C = [1, 0],
\* K = [[k0], [k1]] with dt = 1/20, k0 = 1/4, k1 = 1/2
kalman_params ==
  [ A |-> [i \in 0..1 |-> [j \in 0..1 |->
             IF i = j THEN I(1) ELSE IF i = 0 THEN R(1, 20) ELSE I(0)]],
    C |-> [j \in 0..1 |-> IF j = 0 THEN I(1) ELSE I(0)],
    K |-> [i \in 0..1 |-> IF i = 0 THEN R(1, 4) ELSE R(1, 2)] ]

\* KF1D(x0, A, C, K): the state vector x0 = [[v], [a]]
KF1D(v, a) == [x |-> [i \in 0..1 |-> IF i = SPEED THEN v ELSE a]]

\* KF1D.update(meas): x = (A - K C) x + K meas
KF1D_update(kf, meas) ==
  LET P == kalman_params
      A_K(i, j) == RSub(P.A[i][j], RMul(P.K[i], P.C[j]))
  IN  [x |-> [i \in 0..1 |->
         RAdd(RAdd(RMul(A_K(i, 0), kf.x[0]), RMul(A_K(i, 1), kf.x[1])),
              RMul(P.K[i], meas))]]

(* -------------------------------- Track -------------------------------- *)

\* Track.__init__(v_lead, kalman_params); the attributes dRel, yRel, vRel,
\* vLead, measured, vLeadK and aLeadK do not exist until the first update
TrackNew(v_lead) ==
  [ cnt |-> 0, aLeadTau |-> LEAD_ACCEL_TAU, kf |-> KF1D(v_lead, I(0)) ]

LearnTau_Inclusive(aLeadK, aLeadTau) ==
  IF RLe(RAbs(aLeadK), R(1, 2)) THEN LEAD_ACCEL_TAU ELSE RMul(aLeadTau, R(9, 10))

LearnTau_Signed(aLeadK, aLeadTau) ==
  IF RLt(aLeadK, R(1, 2)) THEN LEAD_ACCEL_TAU ELSE RMul(aLeadTau, R(9, 10))

\* the "learn if constant acceleration" rule
LearnTau(aLeadK, aLeadTau) ==
  IF RLt(RAbs(aLeadK), R(1, 2)) THEN LEAD_ACCEL_TAU ELSE RMul(aLeadTau, R(9, 10))

TrackKf_EveryUpdate(self, v_lead) == KF1D_update(self.kf, v_lead)

\* the filter after the measurement step of Track.update
TrackKf(self, v_lead) ==
  IF self.cnt > 0 THEN KF1D_update(self.kf, v_lead) ELSE self.kf

\* Track.update(d_rel, y_rel, v_rel, v_lead, measured)
TrackUpdate(self, d_rel, y_rel, v_rel, v_lead, measured) ==
  LET kf == TrackKf(self, v_lead)
      aLeadK == kf.x[ACCEL]
  IN  [ cnt |-> self.cnt + 1,
        aLeadTau |-> LearnTau(aLeadK, self.aLeadTau),
        kf |-> kf,
        dRel |-> d_rel, yRel |-> y_rel, vRel |-> v_rel, vLead |-> v_lead,
        measured |-> measured,
        vLeadK |-> kf.x[SPEED], aLeadK |-> aLeadK ]

\* Track.get_key_for_cluster()
get_key_for_cluster(self) == <<self.dRel, RMul(self.yRel, I(2)), self.vRel>>

TrackReset_Republish(self, aLeadK, aLeadTau) ==
  [self EXCEPT !.kf = KF1D(self.vLead, aLeadK), !.aLeadK = aLeadK,
               !.aLeadTau = aLeadTau, !.vLeadK = self.vLead]

TrackReset_KeepSpeed(self, aLeadK, aLeadTau) ==
  [self EXCEPT !.kf = KF1D(self.kf.x[SPEED], aLeadK), !.aLeadK = aLeadK,
               !.aLeadTau = aLeadTau]

TrackReset_Restart(self, aLeadK, aLeadTau) ==
  [self EXCEPT !.kf = KF1D(self.vLead, aLeadK), !.aLeadK = aLeadK,
               !.aLeadTau = aLeadTau, !.cnt = 0]

\* Track.reset_a_lead(aLeadK, aLeadTau)
TrackReset(self, aLeadK, aLeadTau) ==
  [self EXCEPT !.kf = KF1D(self.vLead, aLeadK), !.aLeadK = aLeadK,
               !.aLeadTau = aLeadTau]

(* ------------------------------- Cluster ------------------------------- *)
\* A Cluster is its set ts of Track ids; tr is the table of Track objects.

RECURSIVE RSum(_, _)
\* sum(x) for the list x = [f[t] for t in ts]
RSum(ts, f) ==
  IF ts = {} THEN I(0)
  ELSE LET t == CHOOSE u \in ts : TRUE
       IN  RAdd(f[t], RSum(ts \ {t}, f))

mean_FixedLen(ts, f) == RDivInt(RSum(ts, f), Cardinality(TrackIds))

\* common.numpy_fast.mean of the list [f[t] for t in ts], ts not empty
mean(ts, f) == RDivInt(RSum(ts, f), Cardinality(ts))

\* the exception a mean over a raw Track attribute raises, "" if none
MeanRaises(ts, tr) ==
  IF ts = {} THEN "ZeroDivisionError"
  ELSE IF \E t \in ts : tr[t].cnt = 0 THEN "AttributeError"
  ELSE ""

Cluster_dRel(ts, tr) == mean(ts, [t \in ts |-> tr[t].dRel])
Cluster_yRel_Flipped(ts, tr) == RNeg(mean(ts, [t \in ts |-> tr[t].yRel]))

Cluster_yRel(ts, tr) == mean(ts, [t \in ts |-> tr[t].yRel])
Cluster_vRel(ts, tr) == mean(ts, [t \in ts |-> tr[t].vRel])
Cluster_vLead(ts, tr) == mean(ts, [t \in ts |-> tr[t].vLead])
Cluster_vLeadK(ts, tr) == mean(ts, [t \in ts |-> tr[t].vLeadK])

Qualified_Updated(ts, tr) == {t \in ts : tr[t].cnt > 0}

\* the members whose acceleration estimate is used
Qualified(ts, tr) == {t \in ts : tr[t].cnt > 1}

Cluster_aLeadK(ts, tr) ==
  IF \A t \in ts : tr[t].cnt <= 1 THEN I(0)
  ELSE mean(Qualified(ts, tr), [t \in Qualified(ts, tr) |-> tr[t].aLeadK])

Cluster_aLeadTau(ts, tr) ==
  IF \A t \in ts : tr[t].cnt <= 1 THEN LEAD_ACCEL_TAU
  ELSE mean(Qualified(ts, tr), [t \in Qualified(ts, tr) |-> tr[t].aLeadTau])

\* any(t.measured for t in self.tracks), every member updated
Cluster_measured(ts, tr) == \E t \in ts : tr[t].measured

is_potential_fcw_Inclusive(model_prob) == ~RLt(model_prob, R(9, 10))

\* Cluster.is_potential_fcw(model_prob)
is_potential_fcw(model_prob) == RGt(model_prob, R(9, 10))

get_RadarState_Swapped(ts, tr, model_prob) ==
  [ dRel |-> Cluster_dRel(ts, tr),
    yRel |-> Cluster_yRel(ts, tr),
    vRel |-> Cluster_vRel(ts, tr),
    vLead |-> Cluster_vLeadK(ts, tr),
    vLeadK |-> Cluster_vLead(ts, tr),
    aLeadK |-> Cluster_aLeadK(ts, tr),
    status |-> TRUE,
    fcw |-> is_potential_fcw(model_prob),
    modelProb |-> model_prob,
    radar |-> TRUE,
    aLeadTau |-> Cluster_aLeadTau(ts, tr) ]

\* Cluster.get_RadarState(model_prob), no attribute raising
get_RadarState(ts, tr, model_prob) ==
  [ dRel |-> Cluster_dRel(ts, tr),
    yRel |-> Cluster_yRel(ts, tr),
    vRel |-> Cluster_vRel(ts, tr),
    vLead |-> Cluster_vLead(ts, tr),
    vLeadK |-> Cluster_vLeadK(ts, tr),
    aLeadK |-> Cluster_aLeadK(ts, tr),
    status |-> TRUE,
    fcw |-> is_potential_fcw(model_prob),
    modelProb |-> model_prob,
    radar |-> TRUE,
    aLeadTau |-> Cluster_aLeadTau(ts, tr) ]

potential_low_speed_lead_Inclusive(ts, tr, v_ego) ==
  /\ RLt(RAbs(Cluster_yRel(ts, tr)), R(3, 2))
  /\ ~RGt(v_ego, v_ego_stationary)
  /\ RLt(Cluster_dRel(ts, tr), I(25))

\* Cluster.potential_low_speed_lead(v_ego), no attribute raising
potential_low_speed_lead(ts, tr, v_ego) ==
  /\ RLt(RAbs(Cluster_yRel(ts, tr)), R(3, 2))
  /\ RLt(v_ego, v_ego_stationary)
  /\ RLt(Cluster_dRel(ts, tr), I(25))

(* ------------------------------ vision lead ---------------------------- *)

VisionAvg_Swapped(avg, sample) == RDivInt(RAdd(avg, RMul(sample, I(4))), 5)

\* the weighted average (avg * 4 + sample) / 5
VisionAvg(avg, sample) == RDivInt(RAdd(RMul(avg, I(4)), sample), 5)

LearnVisionTau_Signed(aLead, aTau) ==
  IF RLt(aLead, R(1, 2)) THEN LEAD_ACCEL_TAU ELSE RMul(aTau, R(9, 10))

\* the "learn if constant acceleration" rule on the vision lead state
LearnVisionTau(aLead, aTau) ==
  IF RLt(RAbs(aLead), R(1, 2)) THEN LEAD_ACCEL_TAU ELSE RMul(aTau, R(9, 10))

\* corrected_v_lead = lead_msg.v[0] - (vision_v_ego - v_ego)
corrected_v_lead(lead_msg, v_ego, vision_v_ego) ==
  RSub(lead_msg.v, RSub(vision_v_ego, v_ego))

VisionRecord_RawVRel(dRel, vLead, aLead, aTau, lead_msg, v_ego, vision_v_ego) ==
  [ dRel |-> dRel,
    yRel |-> RNeg(lead_msg.y),
    vRel |-> RSub(corrected_v_lead(lead_msg, v_ego, vision_v_ego), v_ego),
    vLead |-> corrected_v_lead(lead_msg, v_ego, vision_v_ego),
    vLeadK |-> vLead,
    aLeadK |-> aLead,
    aLeadTau |-> aTau,
    fcw |-> FALSE,
    modelProb |-> lead_msg.prob,
    radar |-> FALSE,
    status |-> TRUE ]

VisionRecord_Fcw(dRel, vLead, aLead, aTau, lead_msg, v_ego, vision_v_ego) ==
  [ dRel |-> dRel,
    yRel |-> RNeg(lead_msg.y),
    vRel |-> RSub(vLead, v_ego),
    vLead |-> corrected_v_lead(lead_msg, v_ego, vision_v_ego),
    vLeadK |-> vLead,
    aLeadK |-> aLead,
    aLeadTau |-> aTau,
    fcw |-> is_potential_fcw(lead_msg.prob),
    modelProb |-> lead_msg.prob,
    radar |-> FALSE,
    status |-> TRUE ]

\* the record get_RadarState_from_vision returns, from the updated averages
VisionRecord(dRel, vLead, aLead, aTau, lead_msg, v_ego, vision_v_ego) ==
  [ dRel |-> dRel,
    yRel |-> RNeg(lead_msg.y),
    vRel |-> RSub(vLead, v_ego),
    vLead |-> corrected_v_lead(lead_msg, v_ego, vision_v_ego),
    vLeadK |-> vLead,
    aLeadK |-> aLead,
    aLeadTau |-> aTau,
    fcw |-> FALSE,
    modelProb |-> lead_msg.prob,
    radar |-> FALSE,
    status |-> TRUE ]

(* ------------------------------- state --------------------------------- *)
\* track            the Track objects
\* tracks           Cluster.tracks of the cluster being built
\* vision_lead_aTau, avg_vision_dRel, avg_vision_vLead, avg_vision_aLead
\*                  the module-level vision lead state, keyed by lead index
\* ret              the last call: its name, arguments, what it raised and,
\*                  when it returns a value, the value
\* last             history: the last call that changed each Track
\* was_reset        history: reset_a_lead has succeeded on the Track
\* streak           history: how many of the Track's latest updates in a row
\*                  computed an aLeadK of magnitude 0.5 or more
\* ncalls           history: number of get_RadarState_from_vision calls

RECURSIVE SumCnt(_, _)
SumCnt(ts, tr) ==
  IF ts = {} THEN 0
  ELSE LET t == CHOOSE u \in ts : TRUE IN tr[t].cnt + SumCnt(ts \ {t}, tr)

\* calls counted against MaxUpdates, and against MaxCalls
TotalUpdates == SumCnt(TrackIds, track)
TotalCalls == TotalUpdates + ncalls

visionVars == <<vision_lead_aTau, avg_vision_dRel, avg_vision_vLead, avg_vision_aLead>>

Init ==
  /\ track \in [TrackIds -> {TrackNew(v) : v \in V0Vals}]
  /\ tracks = {}
  /\ vision_lead_aTau = [i \in LeadIndices |-> LEAD_ACCEL_TAU]
  /\ avg_vision_dRel = [i \in LeadIndices |-> I(0)]
  /\ avg_vision_vLead = [i \in LeadIndices |-> I(0)]
  /\ avg_vision_aLead = [i \in LeadIndices |-> I(0)]
  /\ ret = NoCall
  /\ last = [t \in TrackIds |-> "init"]
  /\ was_reset = [t \in TrackIds |-> FALSE]
  /\ streak = [t \in TrackIds |-> 0]
  /\ ncalls = 0

(* ------------------------------- actions ------------------------------- *)

\* track[t].update(d_rel, y_rel, v_rel, v_lead, measured)
Update(t, det) ==
  /\ TotalUpdates < MaxUpdates
  /\ track' = [track EXCEPT ![t] =
       TrackUpdate(track[t], det.d_rel, det.y_rel, det.v_rel, det.v_lead, det.measured)]
  /\ last' = [last EXCEPT ![t] = "update"]
  /\ streak' = [streak EXCEPT ![t] =
       IF RLt(RAbs(track'[t].aLeadK), R(1, 2)) THEN 0 ELSE streak[t] + 1]
  /\ ret' = [op |-> "update", t |-> t, raised |-> ""]
  /\ UNCHANGED <<was_reset, tracks, visionVars, ncalls>>

\* track[t].reset_a_lead(aLeadK, aLeadTau); self.vLead does not exist before
\* the first update
ResetALead(t, aLeadK, aLeadTau) ==
  IF track[t].cnt = 0
  THEN /\ ret' = [op |-> "reset_a_lead", t |-> t, raised |-> "AttributeError"]
       /\ UNCHANGED <<track, last, was_reset, streak, tracks, visionVars, ncalls>>
  ELSE /\ track' = [track EXCEPT ![t] = TrackReset(track[t], aLeadK, aLeadTau)]
       /\ last' = [last EXCEPT ![t] = "reset"]
       /\ was_reset' = [was_reset EXCEPT ![t] = TRUE]
       /\ ret' = [op |-> "reset_a_lead", t |-> t, raised |-> ""]
       /\ UNCHANGED <<streak, tracks, visionVars, ncalls>>

\* track[t].get_key_for_cluster()
GetKeyForCluster(t) ==
  /\ ret' = IF track[t].cnt = 0
            THEN [op |-> "get_key_for_cluster", t |-> t, raised |-> "AttributeError"]
            ELSE [op |-> "get_key_for_cluster", t |-> t, raised |-> "",
                  val |-> get_key_for_cluster(track[t])]
  /\ UNCHANGED <<track, last, was_reset, streak, tracks, visionVars, ncalls>>

\* Cluster(): a new, empty cluster
ClusterNew ==
  /\ tracks' = {}
  /\ ret' = [op |-> "Cluster", raised |-> ""]
  /\ UNCHANGED <<track, last, was_reset, streak, visionVars, ncalls>>

ClusterAdd_Toggle(t) ==
  /\ tracks' = IF t \in tracks THEN tracks \ {t} ELSE tracks \cup {t}
  /\ ret' = [op |-> "add", t |-> t, raised |-> "", was_member |-> t \in tracks]
  /\ UNCHANGED <<track, last, was_reset, streak, visionVars, ncalls>>

\* cluster.add(track[t]); ret notes whether track[t] was a member already
ClusterAdd(t) ==
  /\ tracks' = tracks \cup {t}
  /\ ret' = [op |-> "add", t |-> t, raised |-> "", was_member |-> t \in tracks]
  /\ UNCHANGED <<track, last, was_reset, streak, visionVars, ncalls>>

\* reading the cluster's properties dRel, yRel, vRel, vLead, vLeadK, aLeadK,
\* aLeadTau and measured
ClusterProperties ==
  /\ ret' = IF MeanRaises(tracks, track) # ""
            THEN [op |-> "properties", raised |-> MeanRaises(tracks, track),
                  aLeadK |-> Cluster_aLeadK(tracks, track),
                  aLeadTau |-> Cluster_aLeadTau(tracks, track)]
            ELSE [op |-> "properties", raised |-> "",
                  dRel |-> Cluster_dRel(tracks, track),
                  yRel |-> Cluster_yRel(tracks, track),
                  vRel |-> Cluster_vRel(tracks, track),
                  vLead |-> Cluster_vLead(tracks, track),
                  vLeadK |-> Cluster_vLeadK(tracks, track),
                  aLeadK |-> Cluster_aLeadK(tracks, track),
                  aLeadTau |-> Cluster_aLeadTau(tracks, track),
                  measured |-> Cluster_measured(tracks, track)]
  /\ UNCHANGED <<track, last, was_reset, streak, tracks, visionVars, ncalls>>

\* cluster.get_RadarState(model_prob)
GetRadarState(model_prob) ==
  /\ ret' = IF MeanRaises(tracks, track) # ""
            THEN [op |-> "get_RadarState", model_prob |-> model_prob,
                  raised |-> MeanRaises(tracks, track)]
            ELSE [op |-> "get_RadarState", model_prob |-> model_prob,
                  raised |-> "", val |-> get_RadarState(tracks, track, model_prob)]
  /\ UNCHANGED <<track, last, was_reset, streak, tracks, visionVars, ncalls>>

\* cluster.potential_low_speed_lead(v_ego)
PotentialLowSpeedLead(v_ego) ==
  /\ ret' = IF MeanRaises(tracks, track) # ""
            THEN [op |-> "potential_low_speed_lead", v_ego |-> v_ego,
                  raised |-> MeanRaises(tracks, track)]
            ELSE [op |-> "potential_low_speed_lead", v_ego |-> v_ego,
                  raised |-> "", val |-> potential_low_speed_lead(tracks, track, v_ego)]
  /\ UNCHANGED <<track, last, was_reset, streak, tracks, visionVars, ncalls>>

\* cluster.is_potential_fcw(model_prob)
IsPotentialFcw(model_prob) ==
  /\ ret' = [op |-> "is_potential_fcw", model_prob |-> model_prob, raised |-> "",
             val |-> is_potential_fcw(model_prob)]
  /\ UNCHANGED <<track, last, was_reset, streak, tracks, visionVars, ncalls>>

GetRadarStateFromVision_Shared(lead_msg, lead_index, v_ego, vision_v_ego) ==
  LET dRel == VisionAvg(avg_vision_dRel[lead_index], RSub(lead_msg.x, RADAR_TO_CAMERA))
      vLead == VisionAvg(avg_vision_vLead[lead_index],
                         corrected_v_lead(lead_msg, v_ego, vision_v_ego))
      aLead == VisionAvg(avg_vision_aLead[lead_index], lead_msg.a)
      aTau == LearnVisionTau(aLead, vision_lead_aTau[lead_index])
  IN  /\ ncalls < MaxVisionCalls
      /\ avg_vision_dRel' = [i \in LeadIndices |-> dRel]
      /\ avg_vision_vLead' = [avg_vision_vLead EXCEPT ![lead_index] = vLead]
      /\ avg_vision_aLead' = [avg_vision_aLead EXCEPT ![lead_index] = aLead]
      /\ vision_lead_aTau' = [vision_lead_aTau EXCEPT ![lead_index] = aTau]
      /\ ncalls' = ncalls + 1
      /\ ret' = [op |-> "get_RadarState_from_vision", lead_index |-> lead_index,
                 lead_msg |-> lead_msg, v_ego |-> v_ego, vision_v_ego |-> vision_v_ego,
                 raised |-> "",
                 val |-> VisionRecord(dRel, vLead, aLead, aTau, lead_msg, v_ego, vision_v_ego)]
      /\ UNCHANGED <<track, last, was_reset, streak, tracks>>

\* cluster.get_RadarState_from_vision(lead_msg, lead_index, v_ego, vision_v_ego)
GetRadarStateFromVision(lead_msg, lead_index, v_ego, vision_v_ego) ==
  LET dRel == VisionAvg(avg_vision_dRel[lead_index], RSub(lead_msg.x, RADAR_TO_CAMERA))
      vLead == VisionAvg(avg_vision_vLead[lead_index],
                         corrected_v_lead(lead_msg, v_ego, vision_v_ego))
      aLead == VisionAvg(avg_vision_aLead[lead_index], lead_msg.a)
      aTau == LearnVisionTau(aLead, vision_lead_aTau[lead_index])
  IN  /\ ncalls < MaxVisionCalls
      /\ avg_vision_dRel' = [avg_vision_dRel EXCEPT ![lead_index] = dRel]
      /\ avg_vision_vLead' = [avg_vision_vLead EXCEPT ![lead_index] = vLead]
      /\ avg_vision_aLead' = [avg_vision_aLead EXCEPT ![lead_index] = aLead]
      /\ vision_lead_aTau' = [vision_lead_aTau EXCEPT ![lead_index] = aTau]
      /\ ncalls' = ncalls + 1
      /\ ret' = [op |-> "get_RadarState_from_vision", lead_index |-> lead_index,
                 lead_msg |-> lead_msg, v_ego |-> v_ego, vision_v_ego |-> vision_v_ego,
                 raised |-> "",
                 val |-> VisionRecord(dRel, vLead, aLead, aTau, lead_msg, v_ego, vision_v_ego)]
      /\ UNCHANGED <<track, last, was_reset, streak, tracks>>

\* the radar path: Track and Cluster calls
TrackNext ==
  \/ \E t \in TrackIds, det \in Detections : Update(t, det)
  \/ \E t \in TrackIds, a \in ResetArgs : ResetALead(t, a[1], a[2])
  \/ \E t \in TrackIds : GetKeyForCluster(t)

ClusterNext ==
  \/ ClusterNew
  \/ \E t \in TrackIds : ClusterAdd(t)
  \/ ClusterProperties
  \/ \E p \in Probs : GetRadarState(p)
  \/ \E v \in VEgos : PotentialLowSpeedLead(v)
  \/ \E p \in Probs : IsPotentialFcw(p)

\* the vision path
VisionNext ==
  \E m \in LeadMsgs, i \in LeadIndices, e \in VisionEgos :
    GetRadarStateFromVision(m, i, e[1], e[2])

Next == TrackNext \/ ClusterNext

Spec == Init /\ [][Next]_vars

NextVision == VisionNext \/ (\E p \in Probs : IsPotentialFcw(p))

SpecVision == Init /\ [][NextVision]_vars

\* both paths interleaved
NextAll ==
  \/ TotalCalls < MaxCalls /\ (TrackNext \/ VisionNext)
  \/ ClusterNext

SpecAll == Init /\ [][NextAll]_vars

(* ============================== properties ============================= *)

\* n * q for a count n
Times(n, q) == RMul(I(n), q)

\* the sum of one Track attribute over the members ts
SumOf(ts, attr(_)) == RSum(ts, [t \in ts |-> attr(track[t])])

A_dRel(T) == T.dRel
A_yRel(T) == T.yRel
A_vRel(T) == T.vRel
A_vLead(T) == T.vLead
A_vLeadK(T) == T.vLeadK
A_aLeadK(T) == T.aLeadK
A_aLeadTau(T) == T.aLeadTau

\* C1: a Track that has been updated exactly once has cnt = 1 and its filter
\* state, and the published vLeadK and aLeadK, are still the constructor's
\* guess [v0, 0]: the first update does not run the Kalman correction,
\* whatever v_lead it is given.
C1_FirstUpdateKeepsGuess ==
  \A t \in TrackIds :
    (last[t] = "update" /\ track[t].cnt <= 1) =>
      /\ track[t].cnt = 1
      /\ \E v0 \in V0Vals :
           /\ track[t].kf.x[SPEED] = v0
           /\ track[t].vLeadK = v0
      /\ track[t].kf.x[ACCEL] = I(0)
      /\ track[t].aLeadK = I(0)

\* a Track updated once with a v_lead that differs from its initial guess
C1_Witness ==
  \E t \in TrackIds :
    /\ last[t] = "update" /\ track[t].cnt = 1
    /\ track[t].vLead # track[t].kf.x[SPEED]

\* C2: every update leaves aLeadTau at exactly 1.5 when the magnitude of the
\* filtered acceleration it computed is below 0.5, and otherwise at 0.9 times
\* its previous value, which is strictly smaller than before.
C2_Persistence ==
  [][\A t \in TrackIds :
       track'[t].cnt = track[t].cnt + 1 =>
         IF RLt(RAbs(track'[t].aLeadK), R(1, 2))
         THEN track'[t].aLeadTau = R(3, 2)
         ELSE /\ Times(10, track'[t].aLeadTau) = Times(9, track[t].aLeadTau)
              /\ RLt(track'[t].aLeadTau, track[t].aLeadTau)]_vars

\* a Track whose last two updates both decayed aLeadTau: 1.5 * 0.9 * 0.9
C2_Witness ==
  \E t \in TrackIds :
    /\ last[t] = "update" /\ ~was_reset[t]
    /\ ~RLt(RAbs(track[t].aLeadK), R(1, 2))
    /\ track[t].aLeadTau = R(243, 200)

\* C3: the cluster's aLeadK is 0 and its aLeadTau is 1.5 when every member has
\* cnt <= 1; otherwise each is the mean over exactly the members with cnt > 1,
\* a non-empty list.
C3_AccelExclusion ==
  ret.op = "properties" =>
    LET Q == {t \in tracks : track[t].cnt > 1}
    IN  IF Q = {}
        THEN ret.aLeadK = I(0) /\ ret.aLeadTau = R(3, 2)
        ELSE /\ Times(Cardinality(Q), ret.aLeadK) = SumOf(Q, A_aLeadK)
             /\ Times(Cardinality(Q), ret.aLeadTau) = SumOf(Q, A_aLeadTau)

\* a cluster of one member with cnt > 1 and one with cnt = 1 whose aLeadK and
\* aLeadTau differ from the first's: only the first is averaged
C3_Witness ==
  /\ ret.op = "properties" /\ ret.raised = ""
  /\ \E t \in tracks, u \in tracks :
       /\ tracks = {t, u}
       /\ track[t].cnt > 1 /\ track[u].cnt = 1
       /\ track[u].aLeadK # track[t].aLeadK
       /\ track[u].aLeadTau # track[t].aLeadTau
       /\ ret.aLeadK = track[t].aLeadK
       /\ ret.aLeadTau = track[t].aLeadTau

\* C4: after reset_a_lead(aLeadK, aLeadTau) on a Track that has been updated,
\* the filter state is [v_lead of the latest update, aLeadK] and aLeadTau is the
\* given one; nothing of the previous filter state is kept.
C4_ResetReseeds ==
  \A t \in TrackIds :
    last[t] = "reset" =>
      /\ track[t].cnt >= 1
      /\ \E a \in ResetArgs :
           /\ track[t].kf.x[SPEED] = track[t].vLead
           /\ track[t].kf.x[ACCEL] = a[1]
           /\ track[t].aLeadTau = a[2]

\* a reset Track whose filtered velocity before the reset was not the raw v_lead
C4_Witness ==
  \E t \in TrackIds :
    /\ last[t] = "reset" /\ track[t].cnt >= 2
    /\ track[t].vLeadK # track[t].vLead
    /\ track[t].kf.x[SPEED] = track[t].vLead

\* C5: cnt grows by exactly 1 in every update and is left alone by every other
\* call, and the first update after a reset runs the Kalman correction.
C5_CntMonotonic ==
  [][\A t \in TrackIds :
       /\ IF ret'.op = "update" /\ ret'.t = t
          THEN track'[t].cnt = track[t].cnt + 1
          ELSE track'[t].cnt = track[t].cnt
       /\ (last[t] = "reset" /\ ret'.op = "update" /\ ret'.t = t) =>
            /\ track[t].cnt > 0
            /\ track'[t].kf = KF1D_update(track[t].kf, track'[t].vLead)]_vars

\* a Track updated after a reset: the update moved the reseeded filter state
C5_Witness ==
  \E t \in TrackIds :
    /\ was_reset[t] /\ last[t] = "update" /\ track[t].cnt = 2
    /\ track[t].kf.x[SPEED] # track[t].vLead
    /\ track[t].kf.x[ACCEL] # I(-1)

\* C6: the properties of a cluster with a single member are that member's
\* stored dRel, yRel, vRel, vLead, vLeadK and measured, also when the member
\* has been updated again since it was added.
C6_SingleMember ==
  (ret.op = "properties" /\ ret.raised = "") =>
    \A t \in tracks :
      tracks = {t} =>
        /\ ret.dRel = track[t].dRel
        /\ ret.yRel = track[t].yRel
        /\ ret.vRel = track[t].vRel
        /\ ret.vLead = track[t].vLead
        /\ ret.vLeadK = track[t].vLeadK
        /\ ret.measured = track[t].measured

\* a single-member cluster read after the member's second update
C6_Witness ==
  /\ ret.op = "properties" /\ ret.raised = ""
  /\ \E t \in tracks :
       /\ tracks = {t}
       /\ track[t].cnt >= 2
       /\ track[t].vLeadK # track[t].vLead
       /\ ret.vLeadK = track[t].vLeadK

\* C7 as stated: the cluster's yRel is the negation of the mean of the lateral
\* values last passed to its members' update.
C7_Negated ==
  (ret.op = "properties" /\ ret.raised = "") =>
    Times(Cardinality(tracks), ret.yRel) = RNeg(SumOf(tracks, A_yRel))

\* C7: the cluster's yRel is the mean of the lateral values last passed to its
\* members' update, with the sign they were passed with.
C7_MeanYRel ==
  (ret.op = "properties" /\ ret.raised = "") =>
    Times(Cardinality(tracks), ret.yRel) = SumOf(tracks, A_yRel)

\* a cluster of two members with different lateral values and a non-zero mean
C7_Witness ==
  /\ ret.op = "properties" /\ ret.raised = ""
  /\ tracks = TrackIds
  /\ \E t \in tracks, u \in tracks : track[t].yRel # track[u].yRel
  /\ ret.yRel = R(-1, 2)

\* C8: potential_low_speed_lead(v_ego) is true exactly when |mean yRel| < 1.5
\* and v_ego < 4 and mean dRel < 25, each bound exclusive.
C8_LowSpeedLead ==
  (ret.op = "potential_low_speed_lead" /\ ret.raised = "") =>
    LET n == Cardinality(tracks)
    IN  ret.val <=>
          /\ RLt(RAbs(SumOf(tracks, A_yRel)), Times(n, R(3, 2)))
          /\ RLt(ret.v_ego, I(4))
          /\ RLt(SumOf(tracks, A_dRel), Times(n, I(25)))

\* the call at v_ego = 4 on a cluster that passes the lateral and distance gates
C8_Witness ==
  /\ ret.op = "potential_low_speed_lead" /\ ret.raised = ""
  /\ ret.v_ego = I(4)
  /\ ret.val = FALSE
  /\ tracks = TrackIds
  /\ Cluster_yRel(tracks, track) = R(-1, 2)
  /\ Cluster_dRel(tracks, track) = R(35, 2)

\* C9: is_potential_fcw(model_prob) is true exactly when model_prob > 0.9,
\* whatever the cluster's members, and the fcw field of get_RadarState is
\* that value.
C9_Fcw ==
  /\ ret.op = "is_potential_fcw" =>
       (ret.val <=> Num(ret.model_prob) * 10 > 9 * Den(ret.model_prob))
  /\ (ret.op = "get_RadarState" /\ ret.raised = "") =>
       (ret.val.fcw <=> Num(ret.model_prob) * 10 > 9 * Den(ret.model_prob))

\* get_RadarState at model_prob = 0.9 exactly: no forward collision warning
C9_Witness ==
  /\ ret.op = "get_RadarState" /\ ret.raised = ""
  /\ ret.model_prob = R(9, 10)
  /\ ret.val.fcw = FALSE

\* C10: every record get_RadarState_from_vision returns has fcw = FALSE and
\* radar = FALSE.
C10_VisionNeverFcw ==
  ret.op = "get_RadarState_from_vision" =>
    /\ ret.val.fcw = FALSE
    /\ ret.val.radar = FALSE

\* a vision record for a lead with prob > 0.9 on a slot that was updated before
C10_Witness ==
  /\ ret.op = "get_RadarState_from_vision"
  /\ RGt(ret.lead_msg.prob, R(9, 10))
  /\ ncalls >= 2
  /\ ret.val.modelProb = ret.lead_msg.prob
  /\ avg_vision_dRel[ret.lead_index] # RDivInt(RSub(ret.lead_msg.x, RADAR_TO_CAMERA), 5)

\* q lies between a and b, ends included
Between(q, a, b) == (RLe(a, q) /\ RLe(q, b)) \/ (RLe(b, q) /\ RLe(q, a))

\* one smoothing step: new = (4 * old + sample) / 5, which is sample / 5 from
\* zero and lies between old and sample
Smoothed(old, new, sample) ==
  /\ Times(5, new) = RAdd(Times(4, old), sample)
  /\ (old = I(0) => new = RDivInt(sample, 5))
  /\ Between(new, old, sample)
  /\ (old # sample => new # old)

\* C11: every get_RadarState_from_vision call replaces the slot's smoothed
\* distance, lead velocity and lead acceleration by (4 * previous + sample) / 5,
\* so a first call from zero gives sample / 5 and every call moves the value
\* towards the sample; the distance sample is lead_msg.x[0] - 1.52 and the
\* velocity sample is the corrected lead velocity.
C11_VisionSmoothing ==
  [][ret'.op = "get_RadarState_from_vision" =>
       LET i == ret'.lead_index
           m == ret'.lead_msg
       IN  /\ Smoothed(avg_vision_dRel[i], avg_vision_dRel'[i],
                       RSub(m.x, R(152, 100)))
           /\ Smoothed(avg_vision_vLead[i], avg_vision_vLead'[i],
                       RSub(m.v, RSub(ret'.vision_v_ego, ret'.v_ego)))
           /\ Smoothed(avg_vision_aLead[i], avg_vision_aLead'[i], m.a)]_vars

\* slot 0 after two calls with the same lead (x = 20, v = 5): 9/25 of the sample
C11_Witness ==
  /\ ret.op = "get_RadarState_from_vision" /\ ret.lead_index = 0
  /\ ncalls = 2
  /\ avg_vision_dRel[1] = I(0)
  /\ Times(25, avg_vision_dRel[0]) = Times(9, RSub(I(20), R(152, 100)))
  /\ Times(25, avg_vision_vLead[0]) = Times(9, I(4))

\* the four values of the vision lead state for lead index i
Slot(i) == <<avg_vision_dRel[i], avg_vision_vLead[i], avg_vision_aLead[i],
             vision_lead_aTau[i]>>

\* C12: a get_RadarState_from_vision call for one lead index leaves the other
\* index's four values alone, and no Track or Cluster call changes the vision
\* lead state of either index, so a slot keeps its state while it is not called.
C12_SlotFrame ==
  [][\A i \in LeadIndices :
       (ret'.op = "get_RadarState_from_vision" /\ ret'.lead_index = i)
         \/ Slot(i)' = Slot(i)]_vars

\* a Track update made after both slots were smoothed with different leads
C12_Witness ==
  /\ ret.op = "update"
  /\ ncalls = 2
  /\ avg_vision_dRel[0] # I(0) /\ avg_vision_dRel[1] # I(0)
  /\ Slot(0) # Slot(1)
  /\ vision_lead_aTau[0] # vision_lead_aTau[1]

\* C13: after a get_RadarState_from_vision call the slot's aTau is 1.5 when
\* the magnitude of the slot's smoothed acceleration, as that call left it, is
\* below 0.5, and 0.9 times the slot's previous aTau otherwise; the call reads
\* and changes no Track and no Cluster.
C13_VisionPersistence ==
  [][ret'.op = "get_RadarState_from_vision" =>
       LET i == ret'.lead_index
       IN  /\ IF RLt(RAbs(avg_vision_aLead'[i]), R(1, 2))
              THEN vision_lead_aTau'[i] = R(3, 2)
              ELSE Times(10, vision_lead_aTau'[i]) = Times(9, vision_lead_aTau[i])
           /\ track' = track
           /\ tracks' = tracks]_vars

\* a slot back at 1.5 after a decay (smoothed acceleration -1, then -2/5),
\* while a Track holds another aLeadTau
C13_Witness ==
  /\ ret.op = "get_RadarState_from_vision"
  /\ ncalls = 2
  /\ avg_vision_aLead[ret.lead_index] = R(-2, 5)
  /\ vision_lead_aTau[ret.lead_index] = R(3, 2)
  /\ ret.val.aLeadTau = R(3, 2)
  /\ \E t \in TrackIds : track[t].aLeadTau = I(2)

\* the mean of one Track attribute over the members ts is q
IsMean(q, ts, attr(_)) == Times(Cardinality(ts), q) = SumOf(ts, attr)

\* C14: get_RadarState(model_prob) changes nothing: not the members, not any
\* Track, not the vision lead state; the record it returns has radar = TRUE,
\* status = TRUE, modelProb = model_prob, and its kinematic fields are the
\* cluster's properties at the time of the call.
C14_RadarStatePure ==
  [][ret'.op = "get_RadarState" =>
       /\ track' = track
       /\ tracks' = tracks
       /\ \A i \in LeadIndices : Slot(i)' = Slot(i)
       /\ ret'.raised = "" =>
            LET rec == ret'.val
                Q == {t \in tracks : track[t].cnt > 1}
            IN  /\ rec.radar = TRUE
                /\ rec.status = TRUE
                /\ rec.modelProb = ret'.model_prob
                /\ IsMean(rec.dRel, tracks, A_dRel)
                /\ IsMean(rec.yRel, tracks, A_yRel)
                /\ IsMean(rec.vRel, tracks, A_vRel)
                /\ IsMean(rec.vLead, tracks, A_vLead)
                /\ IsMean(rec.vLeadK, tracks, A_vLeadK)
                /\ IF Q = {}
                   THEN rec.aLeadK = I(0) /\ rec.aLeadTau = R(3, 2)
                   ELSE /\ IsMean(rec.aLeadK, Q, A_aLeadK)
                        /\ IsMean(rec.aLeadTau, Q, A_aLeadTau)]_vars

\* a record for a cluster whose member has cnt > 1, taken while a vision slot
\* holds smoothed values
C14_Witness ==
  /\ ret.op = "get_RadarState" /\ ret.raised = ""
  /\ \E t \in tracks : track[t].cnt > 1
  /\ ncalls >= 1
  /\ ret.val.vLeadK # ret.val.vLead
  /\ ret.val.aLeadK # I(0)
  /\ ret.val.radar = TRUE

\* C15: add has set semantics: after add(t) the members are the previous ones
\* and t, so adding a member again changes nothing, neither the members nor any
\* mean taken over them.
C15_AddIdempotent ==
  [][ret'.op = "add" =>
       /\ tracks' = tracks \cup {ret'.t}
       /\ track' = track
       /\ ret'.was_member =>
            /\ tracks' = tracks
            /\ Cardinality(tracks') = Cardinality(tracks)
            /\ MeanRaises(tracks, track) = "" =>
                 /\ Cluster_dRel(tracks', track') = Cluster_dRel(tracks, track)
                 /\ Cluster_vLeadK(tracks', track') = Cluster_vLeadK(tracks, track)
                 /\ Cluster_aLeadK(tracks', track') = Cluster_aLeadK(tracks, track)]_vars

\* a second add of a member of a two-member cluster whose members differ
C15_Witness ==
  /\ ret.op = "add" /\ ret.was_member
  /\ tracks = TrackIds
  /\ MeanRaises(tracks, track) = ""
  /\ \E t \in tracks, u \in tracks : track[t].dRel # track[u].dRel
  /\ Cluster_dRel(tracks, track) = R(35, 2)

RECURSIVE Decayed(_)
\* 1.5 * 0.9^k
Decayed(k) == IF k = 0 THEN R(3, 2) ELSE RMul(Decayed(k - 1), R(9, 10))

\* C16: a Track that was never reset and has been updated holds
\* aLeadTau = 1.5 * 0.9^k, k being the number of its latest updates in a row
\* whose aLeadK had magnitude 0.5 or more; so 0 < aLeadTau <= 1.5, and
\* aLeadTau = 1.5 after the first update.
C16_PersistenceClosedForm ==
  \A t \in TrackIds :
    (~was_reset[t] /\ track[t].cnt >= 1) =>
      /\ track[t].aLeadTau = Decayed(streak[t])
      /\ streak[t] < track[t].cnt
      /\ RLt(I(0), track[t].aLeadTau)
      /\ RLe(track[t].aLeadTau, R(3, 2))
      /\ track[t].cnt = 1 => track[t].aLeadTau = R(3, 2)

\* a never-reset Track after three updates, the last two of them decaying
C16_Witness ==
  \E t \in TrackIds :
    /\ ~was_reset[t] /\ track[t].cnt = 3 /\ streak[t] = 2
    /\ track[t].aLeadTau = R(243, 200)

\* C17: reset_a_lead(aLeadK, aLeadTau) publishes aLeadK at once but leaves
\* the published vLeadK at the value the last update computed, while the
\* filter state is reseeded to the raw vLead; the cluster reads these published
\* values, and the next update publishes the filter state again.
C17_ResetPublishes ==
  [][\A t \in TrackIds :
       /\ (ret'.op = "reset_a_lead" /\ ret'.t = t /\ ret'.raised = "") =>
            /\ track'[t].vLeadK = track[t].vLeadK
            /\ track'[t].kf.x[SPEED] = track[t].vLead
            /\ \E a \in ResetArgs : track'[t].aLeadK = a[1]
            /\ track'[t].aLeadK = track'[t].kf.x[ACCEL]
            /\ Cluster_vLeadK({t}, track') = track[t].vLeadK
            /\ track[t].cnt > 1 => Cluster_aLeadK({t}, track') = track'[t].aLeadK
       /\ (ret'.op = "update" /\ ret'.t = t) =>
            /\ track'[t].vLeadK = track'[t].kf.x[SPEED]
            /\ track'[t].aLeadK = track'[t].kf.x[ACCEL]]_vars

\* a Track just reset whose published vLeadK differs from the reseeded filter
\* speed, read through a cluster
C17_Witness ==
  \E t \in TrackIds :
    /\ last[t] = "reset" /\ track[t].cnt > 1
    /\ track[t].vLeadK # track[t].kf.x[SPEED]
    /\ track[t].aLeadK = I(-1)
    /\ tracks = {t}
    /\ ret.op = "properties" /\ ret.raised = ""
    /\ ret.vLeadK = track[t].vLeadK
    /\ ret.aLeadK = I(-1)

\* C18: in the record get_RadarState_from_vision returns, vLead is the
\* unsmoothed lead_msg.v[0] - (vision_v_ego - v_ego), vLeadK is the slot's
\* smoothed lead velocity as the call left it, and vRel is vLeadK - v_ego.
C18_VisionVelocities ==
  ret.op = "get_RadarState_from_vision" =>
    /\ ret.val.vLead = RSub(ret.lead_msg.v, RSub(ret.vision_v_ego, ret.v_ego))
    /\ ret.val.vLeadK = avg_vision_vLead[ret.lead_index]
    /\ RAdd(ret.val.vRel, ret.v_ego) = ret.val.vLeadK

\* a record whose smoothed and raw lead velocities differ, with a non-zero
\* ego speed correction
C18_Witness ==
  /\ ret.op = "get_RadarState_from_vision"
  /\ ncalls >= 2
  /\ ret.vision_v_ego # ret.v_ego
  /\ ret.val.vLead # ret.lead_msg.v
  /\ ret.val.vLeadK # ret.val.vLead
  /\ ret.val.vRel # RSub(ret.val.vLead, ret.v_ego)

====
